---------------------------- MODULE Spec2Model ----------------------------
(***************************************************************************)
(* Tessellation pattern generators: the raster engine (generator.py), the  *)
(* two vector generators (svg_generator.py, complex_svg_generator.py) and  *)
(* the Islamic engine (islamic_pattern_generator.py), with the file system *)
(* their generate methods write to.                                        *)
(*                                                                         *)
(* A document is the sequence of its elements in the order in which the    *)
(* code appends them to the svg string; an image is the sequence of the    *)
(* draw calls made on it.  An element is a record                          *)
(*   [tag, kind, n, p, s]                                                  *)
(* tag  : the markup tag ("line", "polygon", "path", "circle", ...),       *)
(* kind : which statement of the code emits it,                            *)
(* n    : the number of vertices (polygon) or of points (path),            *)
(* p    : its integer parameters (coordinates where the code computes      *)
(*        integers, loop indices where it computes floats),                *)
(* s    : its textual attributes as the f-string formats them.             *)
(***************************************************************************)
EXTENDS Integers, Sequences, FiniteSets, TLC

VARIABLES gen, files, dirs, last

vars == <<gen, files, dirs, last>>

-----------------------------------------------------------------------------
(* Bounds of the model and constants of the program *)

\* a canvas size below the cell divisor (size // 10 = 0)
SmallSize == 5
\* a canvas size at or above the cell divisor, small enough to enumerate
GridSize == 10
\* the canvas size of the tests
TestSize == 400
\* cell_size = self.size // 10
CellDivisor == 10

Sizes == {0, 1, SmallSize, GridSize, TestSize}

-----------------------------------------------------------------------------
(* Python primitives *)

Digit(d) == <<"0", "1", "2", "3", "4", "5", "6", "7", "8", "9">>[d + 1]

RECURSIVE Digits(_)
Digits(k) == IF k < 10 THEN Digit(k) ELSE Digits(k \div 10) \o Digit(k % 10)

\* a number given as a line width: an int, or a float with one decimal
IntVal(k) == [float |-> FALSE, tenths |-> 10 * k]
FloatVal(t) == [float |-> TRUE, tenths |-> t]

\* f"{value}" of a number: an int prints its digits, a float always prints
\* a decimal point ("1.0", "2.5")
PyStr(v) ==
  IF v.float
    THEN Digits(v.tenths \div 10) \o "." \o Digits(v.tenths % 10)
    ELSE Digits(v.tenths \div 10)

\* len(range(a, b, step)) for step > 0
RangeLen(a, b, step) == IF b <= a THEN 0 ELSE ((b - a - 1) \div step) + 1

\* list(range(a, b, step)) for step > 0
Range(a, b, step) == [i \in 1..RangeLen(a, b, step) |-> a + (i - 1) * step]

\* int(math.sqrt(k)) for k >= 0
RECURSIVE ISqrtFrom(_, _)
ISqrtFrom(k, r) == IF (r + 1) * (r + 1) > k THEN r ELSE ISqrtFrom(k, r + 1)

\* int(math.sqrt(3) * r) for an integer r >= 0: the floor of the irrational
\* product, i.e. the integer square root of 3 r^2
IntSqrt3Times(r) == ISqrtFrom(3 * r * r, r)

\* the elements a loop "for i in range(n): svg += body[i]" appends
Loop(n, body) ==
  LET acc[k \in 0..n] == IF k = 0 THEN <<>> ELSE acc[k - 1] \o body[k - 1]
  IN  acc[n]

\* the elements "for row in range(rows): for col in range(cols): svg += body[row, col]" appends
Grid(rows, cols, body) ==
  Loop(rows, [row \in 0..(rows - 1) |->
                Loop(cols, [col \in 0..(cols - 1) |-> body[row, col]])])

\* a call statement "self._draw_x(svg, ...)" whose helper rebinds its own
\* parameter with "svg += ..." and returns nothing, or whose return value the
\* caller does not use: a str is immutable, the caller's svg gains nothing
Discarded(appended) == <<>>

-----------------------------------------------------------------------------
(* Elements *)

El(tag, kind, n, p, s) == [tag |-> tag, kind |-> kind, n |-> n, p |-> p, s |-> s]

Line(kind, x1, y1, x2, y2) == El("line", kind, 2, <<x1, y1, x2, y2>>, <<>>)

ShapeTags == {"line", "polygon", "path", "circle"}

\* the elements of a document with a given tag / of a given kind
Count(doc, tag) == Cardinality({i \in 1..Len(doc) : doc[i].tag = tag})
CountKind(doc, kind) == Cardinality({i \in 1..Len(doc) : doc[i].kind = kind})


-----------------------------------------------------------------------------
(* Errors and results *)

UnknownPattern == "ValueError: Unknown pattern type"
RangeStepZero == "ValueError: range() arg 3 must not be zero"
DivByZero == "ZeroDivisionError"

\* what a pattern routine hands back: the elements it built, or the
\* exception it raised
Built(body) == [err |-> "", body |-> body]
Raised(err) == [err |-> err, body |-> <<>>]

-----------------------------------------------------------------------------
(* The three grid patterns: the tile arithmetic *)

\* the y of the horizontal (triangular, square) and the x of the vertical
\* (square) lines: range(0, size + 1, cell_size)
AxisOffsets(size) == Range(0, size + 1, size \div CellDivisor)

\* diagonals that start at the canvas: range(0, size + 1, cell_size)
DiagonalOffsets_from_zero(size) == Range(0, size + 1, size \div CellDivisor)


\* the i of both diagonal families: range(-size, size + 1, cell_size)
DiagonalOffsets(size) == Range(0 - size, size + 1, size \div CellDivisor)

\* a column width rounded up instead of truncated
ColWidth_rounded_up(r) == IF r = 0 THEN 0 ELSE ISqrtFrom(3 * r * r, r) + 1

\* row_height = int(3 * r / 2) and col_width = int(sqrt(3) * r) of a
\* hexagon of circumradius r
RowHeight(r) == (3 * r) \div 2
ColWidth(r) == IntSqrt3Times(r)

\* a center without the offset of the odd rows
HexCenterX_unshifted(col_width, row, col) == col * col_width


\* cx = int(col * col_width + (row % 2) * col_width / 2)
HexCenterX(col_width, row, col) == col * col_width + ((row % 2) * col_width) \div 2

-----------------------------------------------------------------------------
(* generator.py: TessellationGenerator, the raster engine.  The body of an *)
(* image is the sequence of its draw.line / draw.polygon calls.            *)

Raster_draw_triangular_pattern(size) ==
  IF size \div CellDivisor = 0 THEN Raised(RangeStepZero)
  ELSE LET ax == AxisOffsets(size)
           dg == DiagonalOffsets(size)
       IN  Built([k \in 1..Len(ax) |-> Line("horizontal", 0, ax[k], size, ax[k])]
                 \o [k \in 1..Len(dg) |-> Line("diagonal_up", 0, dg[k] + size, size, dg[k])]
                 \o [k \in 1..Len(dg) |-> Line("diagonal_down", 0, dg[k], size, dg[k] + size)])

Raster_draw_square_pattern(size) ==
  IF size \div CellDivisor = 0 THEN Raised(RangeStepZero)
  ELSE LET ax == AxisOffsets(size)
       IN  Built([k \in 1..Len(ax) |-> Line("horizontal", 0, ax[k], size, ax[k])]
                 \o [k \in 1..Len(ax) |-> Line("vertical", ax[k], 0, ax[k], size)])

Raster_draw_hexagon(cx, cy, r) == <<El("polygon", "hexagon", 6, <<cx, cy, r>>, <<>>)>>

\* num_rows = size // row_height + 2 raises when row_height = 0
Raster_draw_hexagonal_pattern(size) ==
  LET r == size \div CellDivisor
      row_height == RowHeight(r)
      col_width == ColWidth(r)
      num_rows == (size \div row_height) + 2
      num_cols == (size \div col_width) + 2
      Hex(row, col) ==
        Raster_draw_hexagon(HexCenterX(col_width, row, col), row * row_height, r)
  IN  IF row_height = 0 \/ col_width = 0 THEN Raised(DivByZero)
      ELSE Built(Grid(num_rows, num_cols, [row \in 0..(num_rows - 1), col \in 0..(num_cols - 1) |-> Hex(row, col)]))

\* PatternType = Literal["triangular", "square", "hexagonal"]
RasterPatterns == {"triangular", "square", "hexagonal"}

\* the dispatch of generate (lines 46-53)
RasterDraw(g, pattern) ==
  CASE pattern = "triangular" -> Raster_draw_triangular_pattern(g.size)
    [] pattern = "square" -> Raster_draw_square_pattern(g.size)
    [] pattern = "hexagonal" -> Raster_draw_hexagonal_pattern(g.size)
    [] OTHER -> Raised(UnknownPattern)

-----------------------------------------------------------------------------
(* svg_generator.py: class ComplexSVGTessellationGenerator, eight patterns *)

\* a header whose root element declares the constructor's default size
Svg_svg_header_default_size(g) ==
  << El("?xml", "declaration", 0, <<>>, <<"1.0", "UTF-8">>),
     El("svg", "root", 0, <<800, 800>>, <<"http://www.w3.org/2000/svg">>),
     El("desc", "description", 0, <<>>, <<"Complex Tessellation Pattern">>),
     El("rect", "background", 0, <<g.size, g.size>>, <<g.background_color>>) >>

\* _svg_header: XML declaration, root, <desc>, background rectangle
Svg_svg_header(g) ==
  << El("?xml", "declaration", 0, <<>>, <<"1.0", "UTF-8">>),
     El("svg", "root", 0, <<g.size, g.size>>, <<"http://www.w3.org/2000/svg">>),
     El("desc", "description", 0, <<>>, <<"Complex Tessellation Pattern">>),
     El("rect", "background", 0, <<g.size, g.size>>, <<g.background_color>>) >>

\* a group line that rounds the width to a whole number of units
Svg_style_group_rounded_width(g) ==
  << El("g", "style", 0, <<>>,
        <<g.stroke_color, PyStr(IntVal(g.line_width.tenths \div 10)), "none">>) >>

\* the line every pattern routine appends after the header:
\* <g stroke="{stroke_color}" stroke-width="{line_width}" fill="none">
Svg_style_group(g) ==
  << El("g", "style", 0, <<>>, <<g.stroke_color, PyStr(g.line_width), "none">>) >>

\* a routine that leaves out svg += '</g>\n'
Svg_svg_footer_unclosed_group == << El("/svg", "close", 0, <<>>, <<>>) >>

\* svg += '</g>\n'; svg += self._svg_footer()
Svg_svg_footer == << El("/g", "close", 0, <<>>, <<>>), El("/svg", "close", 0, <<>>, <<>>) >>

\* header, group, the shapes, the closing tags
Svg_document(g, shapes) == Svg_svg_header(g) \o Svg_style_group(g) \o shapes \o Svg_svg_footer

Svg_generate_triangular_pattern(g) ==
  IF g.size \div CellDivisor = 0 THEN Raised(RangeStepZero)
  ELSE LET ax == AxisOffsets(g.size)
           dg == DiagonalOffsets(g.size)
       IN  Built(Svg_document(g,
             [k \in 1..Len(ax) |-> Line("horizontal", 0, ax[k], g.size, ax[k])]
             \o [k \in 1..Len(dg) |-> Line("diagonal_up", 0, dg[k] + g.size, g.size, dg[k])]
             \o [k \in 1..Len(dg) |-> Line("diagonal_down", 0, dg[k], g.size, dg[k] + g.size)]))

\* a routine that draws the vertical lines before the horizontal ones
Svg_generate_square_pattern_verticals_first(g) ==
  IF g.size \div CellDivisor = 0 THEN Raised(RangeStepZero)
  ELSE LET ax == AxisOffsets(g.size)
       IN  Built(Svg_document(g,
             [k \in 1..Len(ax) |-> Line("vertical", ax[k], 0, ax[k], g.size)]
             \o [k \in 1..Len(ax) |-> Line("horizontal", 0, ax[k], g.size, ax[k])]))


Svg_generate_square_pattern(g) ==
  IF g.size \div CellDivisor = 0 THEN Raised(RangeStepZero)
  ELSE LET ax == AxisOffsets(g.size)
       IN  Built(Svg_document(g,
             [k \in 1..Len(ax) |-> Line("horizontal", 0, ax[k], g.size, ax[k])]
             \o [k \in 1..Len(ax) |-> Line("vertical", ax[k], 0, ax[k], g.size)]))

Svg_generate_hexagonal_pattern(g) ==
  LET r == g.size \div CellDivisor
      row_height == RowHeight(r)
      col_width == ColWidth(r)
      num_rows == (g.size \div row_height) + 2
      num_cols == (g.size \div col_width) + 2
      Hex(row, col) ==
        <<El("polygon", "hexagon", 6,
             <<HexCenterX(col_width, row, col), row * row_height, r>>, <<>>)>>
  IN  IF row_height = 0 \/ col_width = 0 THEN Raised(DivByZero)
      ELSE Built(Svg_document(g, Grid(num_rows, num_cols, [row \in 0..(num_rows - 1), col \in 0..(num_cols - 1) |-> Hex(row, col)])))

\* _draw_islamic_star(svg, x, y, size): what it appends to its own svg
\* parameter: the 16-vertex star and 8 radial lines from the center
Svg_draw_islamic_star(x, y, size) ==
  LET center_x == x + size \div 2
      center_y == y + size \div 2
      Radial(i) == <<El("line", "radial", 2, <<center_x, center_y, i>>, <<>>)>>
  IN  <<El("polygon", "star", 16, <<center_x, center_y, size \div 2>>, <<>>)>> \o Loop(8, [step \in 0..7 |-> Radial(step)])

\* tile_size = size // 4; stars on the tiles of the 5 x 5 grid with
\* (row + col) even; 6 + 6 grid lines; 2 x 11 diagonals
Svg_generate_islamic_stars_pattern(g) ==
  LET tile_size == g.size \div 4
      Tile(row, col) ==
        IF (row + col) % 2 = 0
          THEN Discarded(Svg_draw_islamic_star(col * tile_size - tile_size \div 2,
                                               row * tile_size - tile_size \div 2, tile_size))
          ELSE <<>>
      HLine(row) == <<Line("connect_h", 0, row * tile_size - tile_size \div 2,
                           g.size, row * tile_size - tile_size \div 2)>>
      VLine(col) == <<Line("connect_v", col * tile_size - tile_size \div 2, 0,
                           col * tile_size - tile_size \div 2, g.size)>>
      Diag(k) == LET i == k - 5
                 IN  << Line("connect_diag_up", 0, (i + 5) * tile_size, g.size, i * tile_size),
                        Line("connect_diag_down", 0, i * tile_size, g.size, (i + 5) * tile_size) >>
  IN  Built(Svg_document(g,
        Grid(5, 5, [row \in 0..4, col \in 0..4 |-> Tile(row, col)]) \o Loop(6, [step \in 0..5 |-> HLine(step)]) \o Loop(6, [step \in 0..5 |-> VLine(step)]) \o Loop(11, [step \in 0..10 |-> Diag(step)])))

\* a penrose routine whose connector loop stops one sector short
Svg_generate_penrose_pattern_nine_rhombi(g) ==
  LET center_x == g.size \div 2
      center_y == g.size \div 2
      Fan(i) == <<El("polygon", "fan", 3, <<center_x, center_y, i>>, <<>>)>>
      Outward(i) == <<El("polygon", "outward", 3, <<center_x, center_y, i>>, <<>>)>>
      Rhombus(i) == <<El("polygon", "rhombus", 4, <<center_x, center_y, i>>, <<>>)>>
  IN  Built(Svg_document(g, Loop(10, [step \in 0..9 |-> Fan(step)]) \o Loop(10, [step \in 0..9 |-> Outward(step)]) \o Loop(9, [step \in 0..8 |-> Rhombus(step)])))

\* three loops of ten polygons around the canvas center
Svg_generate_penrose_pattern(g) ==
  LET center_x == g.size \div 2
      center_y == g.size \div 2
      Fan(i) == <<El("polygon", "fan", 3, <<center_x, center_y, i>>, <<>>)>>
      Outward(i) == <<El("polygon", "outward", 3, <<center_x, center_y, i>>, <<>>)>>
      Rhombus(i) == <<El("polygon", "rhombus", 4, <<center_x, center_y, i>>, <<>>)>>
  IN  Built(Svg_document(g, Loop(10, [step \in 0..9 |-> Fan(step)]) \o Loop(10, [step \in 0..9 |-> Outward(step)]) \o Loop(10, [step \in 0..9 |-> Rhombus(step)])))

\* the four cell variants of the celtic pattern: what each helper appends to
\* its own svg parameter (x, y: the cell's corner)
Svg_draw_celtic_knot_element1(x, y, size) ==
  << El("path", "knot_curve", 2, <<x, y, 0>>, <<>>),
     El("path", "knot_curve", 2, <<x, y, 1>>, <<>>),
     El("circle", "knot_center", 0, <<x, y>>, <<>>) >>

Svg_draw_celtic_knot_element2(x, y, size) ==
  << El("circle", "loop_circle", 0, <<x, y, 0>>, <<>>),
     El("circle", "loop_circle", 0, <<x, y, 1>>, <<>>),
     El("path", "loop_arc", 2, <<x, y, 0>>, <<>>),
     El("path", "loop_arc", 2, <<x, y, 1>>, <<>>),
     El("path", "loop_arc", 2, <<x, y, 2>>, <<>>) >>

Svg_draw_celtic_knot_element3(x, y, size) ==
  << El("polygon", "cross", 16, <<x, y>>, <<>>) >>

\* num_points = 40: each spiral is M plus 40 L points, one per start angle
Svg_draw_celtic_knot_element4(x, y, size) ==
  << El("path", "spiral", 41, <<x, y, 0>>, <<>>),
     El("path", "spiral", 41, <<x, y, 1>>, <<>>) >>

Svg_generate_celtic_knots_pattern(g) ==
  LET cell_size == g.size \div 8
      Cell(row, col) ==
        LET x == col * cell_size
            y == row * cell_size
            pattern == (row + col) % 4
        IN  CASE pattern = 0 -> Discarded(Svg_draw_celtic_knot_element1(x, y, cell_size))
              [] pattern = 1 -> Discarded(Svg_draw_celtic_knot_element2(x, y, cell_size))
              [] pattern = 2 -> Discarded(Svg_draw_celtic_knot_element3(x, y, cell_size))
              [] OTHER -> Discarded(Svg_draw_celtic_knot_element4(x, y, cell_size))
  IN  Built(Svg_document(g, Grid(8, 8, [row \in 0..7, col \in 0..7 |-> Cell(row, col)])))

\* _draw_floral_element(svg, x, y, size): 8 petals, the center circle, 8
\* stamens; x2, y2 are twice the unit's corner (x may be a half-integer)
Svg_draw_floral_element(x2, y2, size) ==
  LET Petal(i) == <<El("path", "petal", 3, <<x2, y2, i>>, <<>>)>>
      Stamen(i) == <<El("circle", "stamen", 0, <<x2, y2, i>>, <<>>)>>
  IN  Loop(8, [step \in 0..7 |-> Petal(step)]) \o <<El("circle", "flower_center", 0, <<x2, y2>>, <<>>)>> \o Loop(8, [step \in 0..7 |-> Stamen(step)])

\* cell_size = size // 6; 7 x 7 units, x += cell_size / 2 on odd rows
Svg_generate_floral_pattern(g) ==
  LET cell_size == g.size \div 6
      Unit(row, col) ==
        Discarded(Svg_draw_floral_element(
          2 * col * cell_size + (IF row % 2 = 1 THEN cell_size ELSE 0),
          2 * row * cell_size, cell_size))
  IN  Built(Svg_document(g, Grid(7, 7, [row \in 0..6, col \in 0..6 |-> Unit(row, col)])))

\* _draw_escher_fish(svg, x, y, size, direction): body, eye, closed tail
Svg_draw_escher_fish(x, y, size, direction) ==
  << El("path", "fish_body", 3, <<x, y>>, <<direction>>),
     El("circle", "fish_eye", 0, <<x, y>>, <<direction>>),
     El("path", "fish_tail", 3, <<x, y>>, <<direction>>) >>

Svg_generate_escher_pattern(g) ==
  LET cell_size == g.size \div 6
      Fish(row, col) ==
        Discarded(Svg_draw_escher_fish(col * cell_size, row * cell_size, cell_size,
                                       IF (row + col) % 2 = 0 THEN "right" ELSE "left"))
  IN  Built(Svg_document(g, Grid(6, 6, [row \in 0..5, col \in 0..5 |-> Fish(row, col)])))

\* PatternType of svg_generator.py
SvgPatterns ==
  {"triangular", "square", "hexagonal", "islamic_stars", "penrose", "celtic_knots",
   "floral", "escher"}

\* the dispatch of generate (lines 53-70)
SvgContent(g, pattern) ==
  CASE pattern = "triangular" -> Svg_generate_triangular_pattern(g)
    [] pattern = "square" -> Svg_generate_square_pattern(g)
    [] pattern = "hexagonal" -> Svg_generate_hexagonal_pattern(g)
    [] pattern = "islamic_stars" -> Svg_generate_islamic_stars_pattern(g)
    [] pattern = "penrose" -> Svg_generate_penrose_pattern(g)
    [] pattern = "celtic_knots" -> Svg_generate_celtic_knots_pattern(g)
    [] pattern = "floral" -> Svg_generate_floral_pattern(g)
    [] pattern = "escher" -> Svg_generate_escher_pattern(g)
    [] OTHER -> Raised(UnknownPattern)

-----------------------------------------------------------------------------
(* complex_svg_generator.py: class ComplexSVGTessellationGenerator, the    *)
(* class the tests and the command line import as the complex engine       *)

Complex_svg_header(g) ==
  << El("?xml", "declaration", 0, <<>>, <<"1.0", "UTF-8">>),
     El("svg", "root", 0, <<g.size, g.size>>, <<"http://www.w3.org/2000/svg">>),
     El("desc", "description", 0, <<>>, <<"Complex Tessellation Pattern">>),
     El("rect", "background", 0, <<g.size, g.size>>, <<g.background_color>>) >>

Complex_style_group(g) ==
  << El("g", "style", 0, <<>>, <<g.stroke_color, PyStr(g.line_width), "none">>) >>

Complex_svg_footer == << El("/g", "close", 0, <<>>, <<>>), El("/svg", "close", 0, <<>>, <<>>) >>

Complex_document(g, shapes) ==
  Complex_svg_header(g) \o Complex_style_group(g) \o shapes \o Complex_svg_footer

Complex_generate_hexagonal_pattern(g) ==
  LET r == g.size \div CellDivisor
      row_height == RowHeight(r)
      col_width == ColWidth(r)
      num_rows == (g.size \div row_height) + 2
      num_cols == (g.size \div col_width) + 2
      Hex(row, col) ==
        <<El("polygon", "hexagon", 6,
             <<HexCenterX(col_width, row, col), row * row_height, r>>, <<>>)>>
  IN  IF row_height = 0 \/ col_width = 0 THEN Raised(DivByZero)
      ELSE Built(Complex_document(g, Grid(num_rows, num_cols, [row \in 0..(num_rows - 1), col \in 0..(num_cols - 1) |-> Hex(row, col)])))

\* _draw_floral_element(svg, x, y, size) returns svg with 8 petals, the
\* center circle and 8 stamens appended (x2, y2: twice the unit's corner)
Complex_draw_floral_element(x2, y2, size) ==
  LET Petal(i) == <<El("path", "petal", 3, <<x2, y2, i>>, <<>>)>>
      Stamen(i) == <<El("circle", "stamen", 0, <<x2, y2, i>>, <<>>)>>
  IN  Loop(8, [step \in 0..7 |-> Petal(step)]) \o <<El("circle", "flower_center", 0, <<x2, y2>>, <<>>)>> \o Loop(8, [step \in 0..7 |-> Stamen(step)])

\* cell_size = size // 6; 6 x 6 units, no row offset; the caller assigns the
\* helper's return value: svg = self._draw_floral_element(svg, x, y, cell_size)
Complex_generate_floral_pattern(g) ==
  LET cell_size == g.size \div 6
      Unit(row, col) ==
        Complex_draw_floral_element(2 * col * cell_size, 2 * row * cell_size, cell_size)
  IN  Built(Complex_document(g, Grid(6, 6, [row \in 0..5, col \in 0..5 |-> Unit(row, col)])))

\* PatternType = Literal["hexagonal", "floral"]
ComplexPatterns == {"hexagonal", "floral"}

\* the dispatch of generate (lines 48-54)
ComplexContent(g, pattern) ==
  CASE pattern = "hexagonal" -> Complex_generate_hexagonal_pattern(g)
    [] pattern = "floral" -> Complex_generate_floral_pattern(g)
    [] OTHER -> Raised(UnknownPattern)

-----------------------------------------------------------------------------
(* islamic_pattern_generator.py: IslamicPatternGenerator.  Units are       *)
(* addressed by (row, col); lengths are floats, so elements carry the unit *)
(* and the vertex indices they are computed from.                          *)

Islamic_svg_header(g) ==
  << El("?xml", "declaration", 0, <<>>, <<"1.0", "UTF-8">>),
     El("svg", "root", 0, <<g.size, g.size, 0, 0, g.size, g.size>>,
        <<"http://www.w3.org/2000/svg">>),
     El("desc", "description", 0, <<>>, <<"Islamic Geometric Pattern">>),
     El("rect", "background", 0, <<g.size, g.size>>, <<g.background_color>>) >>

Islamic_style_group(g) ==
  << El("g", "style", 0, <<>>, <<g.stroke_color, PyStr(g.line_width), "none">>) >>

Islamic_svg_footer == << El("/g", "close", 0, <<>>, <<>>), El("/svg", "close", 0, <<>>, <<>>) >>

Islamic_document(g, shapes) ==
  Islamic_svg_header(g) \o Islamic_style_group(g) \o shapes \o Islamic_svg_footer

\* a routine that compares the absolute angular distance with math.pi
LargeArcFlag_absolute_span(i, j, points) ==
  IF 2 * (IF j >= i THEN j - i ELSE i - j) > points THEN 1 ELSE 0


\* large_arc_flag = (end_angle - start_angle) > math.pi, for the angles
\* 2 pi i / points and 2 pi j / points
LargeArcFlag(i, j, points) == IF 2 * (j - i) > points THEN 1 ELSE 0

\* _draw_decorative_arc between inner vertices i and j
Islamic_draw_decorative_arc(row, col, i, j, points) ==
  <<El("path", "arc", 2, <<row, col, i, j, LargeArcFlag(i, j, points)>>, <<>>)>>

\* a routine that draws the spokes and arcs without the inscribed polygon
Islamic_draw_star_interior_no_polygon(row, col, points) ==
  LET Spoke(i) ==
        <<El("line", "spoke", 2, <<row, col, i>>, <<>>)>>
        \o Islamic_draw_decorative_arc(row, col, i, (i + 1) % points, points)
  IN  Loop(points, [step \in 0..(points - 1) |-> Spoke(step)])


\* _draw_star_interior: the inscribed polygon, then per vertex a line from
\* the center and an arc to the next vertex, (i + 1) % points
Islamic_draw_star_interior(row, col, points) ==
  LET Spoke(i) ==
        <<El("line", "spoke", 2, <<row, col, i>>, <<>>)>>
        \o Islamic_draw_decorative_arc(row, col, i, (i + 1) % points, points)
  IN  <<El("polygon", "inner_polygon", points, <<row, col>>, <<>>)>> \o Loop(points, [step \in 0..(points - 1) |-> Spoke(step)])

Islamic_draw_eight_pointed_star(row, col) ==
  LET Deco(i) == <<El("line", "star_line", 2, <<row, col, i>>, <<>>)>>
  IN  <<El("polygon", "star", 16, <<row, col>>, <<>>)>>
      \o Islamic_draw_star_interior(row, col, 8)
      \o Loop(8, [step \in 0..7 |-> Deco(step)])

\* the octagon and its four crossing lines, vertex i to vertex i + 4
Islamic_draw_octagon_grid(row, col) ==
  LET Cross(i) == <<El("line", "cross", 2, <<row, col, i, i + 4>>, <<>>)>>
  IN  <<El("polygon", "secondary", 8, <<row, col>>, <<>>)>> \o Loop(4, [step \in 0..3 |-> Cross(step)])

\* _draw_diamond_connector: divides by the distance of its two end points
\* (in half units: hx1, hy1, hx2, hy2), then returns the 4-vertex polygon
Islamic_draw_diamond_connector(size, hx1, hy1, hx2, hy2, kind, width) ==
  LET dx == hx2 - hx1
      dy == hy2 - hy1
  IN  IF size = 0 \/ (dx = 0 /\ dy = 0) THEN Raised(DivByZero)
      ELSE Built(<<El("polygon", kind, 4, <<hx1, hy1, hx2, hy2, 0 - dy, dx, width>>, <<>>)>>)

\* the first exception among the results of a sequence of calls, "" if none
FirstError(results) ==
  IF \E k \in 1..Len(results) : results[k].err # ""
    THEN results[CHOOSE k \in 1..Len(results) :
                   /\ results[k].err # ""
                   /\ \A m \in 1..(k - 1) : results[m].err = ""].err
    ELSE ""

\* _draw_connecting_elements: calls the connector for every unit of the
\* 5 x 5 loop with col < 4 (horizontal) and row < 4 (vertical) and drops
\* what it returns
Islamic_draw_connecting_elements(size) ==
  LET Cell(row, col) ==
        (IF col < 4
           THEN <<Islamic_draw_diamond_connector(size, 2 * col + 1, 2 * row + 1,
                                                 2 * col + 2, 2 * row + 1, "diamond_h", 15)>>
           ELSE <<>>)
        \o (IF row < 4
              THEN <<Islamic_draw_diamond_connector(size, 2 * col + 1, 2 * row + 1,
                                                    2 * col + 1, 2 * row + 2, "diamond_v", 15)>>
              ELSE <<>>)
      calls == Grid(5, 5, [row \in 0..4, col \in 0..4 |-> Cell(row, col)])
  IN  IF FirstError(calls) # "" THEN Raised(FirstError(calls))
      ELSE Built(Loop(Len(calls), [k \in 0..(Len(calls) - 1) |-> Discarded(calls[k + 1].body)]))

\* unit_size = size / 4; units for row, col in range(-1, 5)
Islamic_generate_eight_fold_pattern(g) ==
  LET Unit(r, c) == Islamic_draw_eight_pointed_star(r - 1, c - 1)
                    \o Islamic_draw_octagon_grid(r - 1, c - 1)
      connect == Islamic_draw_connecting_elements(g.size)
  IN  IF connect.err # "" THEN Raised(connect.err)
      ELSE Built(Islamic_document(g, Grid(6, 6, [row \in 0..5, col \in 0..5 |-> Unit(row, col)]) \o connect.body))

\* _draw_ten_fold_interior: the pentagon and, from each of its vertices, the
\* lines to the vertices (i + j) % 5, j = 1..3
Islamic_draw_ten_fold_interior(row, col) ==
  LET Vertex(i) ==
        LET Target(k) == <<El("line", "pentagon_line", 2, <<row, col, i, (i + k + 1) % 5>>, <<>>)>>
        IN  Loop(3, [step \in 0..2 |-> Target(step)])
  IN  <<El("polygon", "pentagon", 5, <<row, col>>, <<>>)>> \o Loop(5, [step \in 0..4 |-> Vertex(step)])

Islamic_draw_ten_pointed_star(row, col) ==
  <<El("polygon", "star", 20, <<row, col>>, <<>>)>>
  \o Islamic_draw_star_interior(row, col, 10)
  \o Islamic_draw_ten_fold_interior(row, col)

\* the decagon and, from each even vertex 2 i, the lines to the even
\* vertices ((i + j) % 5) * 2, j = 1..4
Islamic_draw_decagon_elements(row, col) ==
  LET Vertex(i) ==
        LET Target(k) ==
              <<El("line", "cross", 2, <<row, col, i * 2, ((i + k + 1) % 5) * 2>>, <<>>)>>
        IN  Loop(4, [step \in 0..3 |-> Target(step)])
  IN  <<El("polygon", "secondary", 10, <<row, col>>, <<>>)>> \o Loop(5, [step \in 0..4 |-> Vertex(step)])

\* _draw_ten_fold_connections: horizontal, vertical and diagonal connector
\* calls over the 4 x 4 loop, none of whose results is used
Islamic_draw_ten_fold_connections(size) ==
  LET Cell(row, col) ==
        (IF col < 3
           THEN <<Islamic_draw_diamond_connector(size, 2 * col + 1, 2 * row + 1,
                                                 2 * col + 2, 2 * row + 1, "diamond_h", 15)>>
           ELSE <<>>)
        \o (IF row < 3
              THEN <<Islamic_draw_diamond_connector(size, 2 * col + 1, 2 * row + 1,
                                                    2 * col + 1, 2 * row + 2, "diamond_v", 15)>>
              ELSE <<>>)
        \o (IF col < 3 /\ row < 3
              THEN <<Islamic_draw_diamond_connector(size, 2 * col + 1, 2 * row + 1,
                                                    2 * col + 2, 2 * row + 2, "diamond_d", 10)>>
              ELSE <<>>)
      calls == Grid(4, 4, [row \in 0..3, col \in 0..3 |-> Cell(row, col)])
  IN  IF FirstError(calls) # "" THEN Raised(FirstError(calls))
      ELSE Built(Loop(Len(calls), [k \in 0..(Len(calls) - 1) |-> Discarded(calls[k + 1].body)]))

\* unit_size = size / 3; units for row, col in range(-1, 4)
Islamic_generate_ten_fold_pattern(g) ==
  LET Unit(r, c) == Islamic_draw_ten_pointed_star(r - 1, c - 1)
                    \o Islamic_draw_decagon_elements(r - 1, c - 1)
      connect == Islamic_draw_ten_fold_connections(g.size)
  IN  IF connect.err # "" THEN Raised(connect.err)
      ELSE Built(Islamic_document(g, Grid(5, 5, [row \in 0..4, col \in 0..4 |-> Unit(row, col)]) \o connect.body))

\* _draw_twelve_fold_interior: hexagon, 12-vertex inner star, 6 lines
Islamic_draw_twelve_fold_interior(row, col) ==
  LET Deco(i) == <<El("line", "hexagon_line", 2, <<row, col, i, (i + 1) % 6>>, <<>>)>>
  IN  << El("polygon", "hexagon", 6, <<row, col>>, <<>>),
         El("polygon", "inner_star", 12, <<row, col>>, <<>>) >>
      \o Loop(6, [step \in 0..5 |-> Deco(step)])

Islamic_draw_twelve_pointed_star(row, col) ==
  <<El("polygon", "star", 24, <<row, col>>, <<>>)>>
  \o Islamic_draw_star_interior(row, col, 12)
  \o Islamic_draw_twelve_fold_interior(row, col)

\* the dodecagon, the six lines i to i + 6, and the four lines from
\* idx1 = 3 i to idx2 = (idx1 + 6) % 12
Islamic_draw_dodecagon_elements(row, col) ==
  LET Opposite(i) == <<El("line", "cross", 2, <<row, col, i, i + 6>>, <<>>)>>
      Second(i) == <<El("line", "cross", 2, <<row, col, i * 3, (i * 3 + 6) % 12>>, <<>>)>>
  IN  <<El("polygon", "secondary", 12, <<row, col>>, <<>>)>>
      \o Loop(6, [step \in 0..5 |-> Opposite(step)]) \o Loop(4, [step \in 0..3 |-> Second(step)])

\* _draw_crossing_pattern: six lines, vertex i to vertex (i + 3) % 6
Islamic_draw_crossing_pattern(row, col) ==
  LET Crossing(i) == <<El("line", "crossing", 2, <<row, col, i, (i + 3) % 6>>, <<>>)>>
  IN  Loop(6, [step \in 0..5 |-> Crossing(step)])

\* _draw_twelve_fold_connections: svg += the connector's return value
\* (horizontal, vertical), then the crossing pattern, over the 4 x 4 loop
Islamic_draw_twelve_fold_connections(size) ==
  LET Cell(row, col) ==
        (IF col < 3
           THEN <<Islamic_draw_diamond_connector(size, 2 * col + 1, 2 * row + 1,
                                                 2 * col + 2, 2 * row + 1, "diamond_h", 15)>>
           ELSE <<>>)
        \o (IF row < 3
              THEN <<Islamic_draw_diamond_connector(size, 2 * col + 1, 2 * row + 1,
                                                    2 * col + 1, 2 * row + 2, "diamond_v", 15)>>
              ELSE <<>>)
        \o (IF col < 3 /\ row < 3
              THEN <<Built(Islamic_draw_crossing_pattern(row, col))>>
              ELSE <<>>)
      calls == Grid(4, 4, [row \in 0..3, col \in 0..3 |-> Cell(row, col)])
  IN  IF FirstError(calls) # "" THEN Raised(FirstError(calls))
      ELSE Built(Loop(Len(calls), [k \in 0..(Len(calls) - 1) |-> calls[k + 1].body]))

Islamic_generate_twelve_fold_pattern(g) ==
  LET Unit(r, c) == Islamic_draw_twelve_pointed_star(r - 1, c - 1)
                    \o Islamic_draw_dodecagon_elements(r - 1, c - 1)
      connect == Islamic_draw_twelve_fold_connections(g.size)
  IN  IF connect.err # "" THEN Raised(connect.err)
      ELSE Built(Islamic_document(g, Grid(5, 5, [row \in 0..4, col \in 0..4 |-> Unit(row, col)]) \o connect.body))

\* pattern_type: Type of Islamic pattern (eight_fold, ten_fold, twelve_fold)
IslamicPatterns == {"eight_fold", "ten_fold", "twelve_fold"}

\* the dispatch of generate (lines 44-51) on the constructor's pattern_type
IslamicContent(g) ==
  CASE g.pattern_type = "eight_fold" -> Islamic_generate_eight_fold_pattern(g)
    [] g.pattern_type = "ten_fold" -> Islamic_generate_ten_fold_pattern(g)
    [] g.pattern_type = "twelve_fold" -> Islamic_generate_twelve_fold_pattern(g)
    [] OTHER -> Raised(UnknownPattern)

-----------------------------------------------------------------------------
(* Generator instances: what each __init__ stores *)

\* line_width, stroke_color, background_color as the vector constructors
\* take them: the defaults, the values of test_custom_styling, an int width
Styles ==
  { [line_width |-> FloatVal(10), stroke_color |-> "#000000", background_color |-> "#FFFFFF"],
    [line_width |-> FloatVal(25), stroke_color |-> "#FF0000", background_color |-> "#FFFFCC"],
    [line_width |-> IntVal(2), stroke_color |-> "#0000FF", background_color |-> "#000000"] }
RasterLineWidths == {IntVal(1), IntVal(2)}
IslamicPatternTypes == {"eight_fold", "ten_fold", "twelve_fold", "sixteen_fold"}

\* TessellationGenerator(size, line_width)
NewRaster(size, line_width) ==
  [engine |-> "raster", size |-> size, line_width |-> line_width,
   stroke_color |-> "", background_color |-> "", pattern_type |-> ""]

\* svg_generator.ComplexSVGTessellationGenerator(size, line_width, stroke_color, background_color)
NewSvg(size, line_width, stroke_color, background_color) ==
  [engine |-> "svg", size |-> size, line_width |-> line_width,
   stroke_color |-> stroke_color, background_color |-> background_color, pattern_type |-> ""]

\* complex_svg_generator.ComplexSVGTessellationGenerator(size, line_width, stroke_color, background_color)
NewComplex(size, line_width, stroke_color, background_color) ==
  [engine |-> "complex", size |-> size, line_width |-> line_width,
   stroke_color |-> stroke_color, background_color |-> background_color, pattern_type |-> ""]

\* IslamicPatternGenerator(size, line_width, stroke_color, background_color, pattern_type)
NewIslamic(size, line_width, stroke_color, background_color, pattern_type) ==
  [engine |-> "islamic", size |-> size, line_width |-> line_width,
   stroke_color |-> stroke_color, background_color |-> background_color,
   pattern_type |-> pattern_type]

DefaultStyle ==
  [line_width |-> FloatVal(10), stroke_color |-> "#000000", background_color |-> "#FFFFFF"]

\* the (size, style) pairs the instances are built from: every size with
\* the default style, every style with the size of the tests
Settings ==
  {[size |-> z, style |-> DefaultStyle] : z \in Sizes}
  \cup {[size |-> TestSize, style |-> y] : y \in Styles}
RasterSettings ==
  {[size |-> z, line_width |-> IntVal(2)] : z \in Sizes}
  \cup {[size |-> TestSize, line_width |-> w] : w \in RasterLineWidths}

Generators ==
  {NewRaster(c.size, c.line_width) : c \in RasterSettings}
  \cup {NewSvg(c.size, c.style.line_width, c.style.stroke_color, c.style.background_color) :
          c \in Settings}
  \cup {NewComplex(c.size, c.style.line_width, c.style.stroke_color,
                   c.style.background_color) : c \in Settings}
  \cup UNION {{NewIslamic(c.size, c.style.line_width, c.style.stroke_color,
                          c.style.background_color, t) : c \in Settings} :
              t \in IslamicPatternTypes}

-----------------------------------------------------------------------------
(* The file system *)

Paths == {"out/a", "out/deep/b"}
Dirs == {"out", "out/deep"}

\* the directories output_path.parent.mkdir(parents=True, exist_ok=True) makes exist
Parents(path) == IF path = "out/a" THEN {"out"} ELSE {"out", "out/deep"}

Absent == [fmt |-> "absent", mode |-> "", w |-> 0, h |-> 0, body |-> <<>>]
\* a file that was at the destination before the program ran
Foreign == [fmt |-> "foreign", mode |-> "", w |-> 0, h |-> 0, body |-> <<>>]
\* f.write(svg_content)
SvgFile(doc) == [fmt |-> "svg", mode |-> "text", w |-> 0, h |-> 0, body |-> doc]
\* an image made with a single channel
PngFile_grayscale(size, calls) ==
  [fmt |-> "png", mode |-> "L", w |-> size, h |-> size, body |-> calls]

\* Image.new("RGB", (size, size), COLOR_WHITE) after the draw calls, saved
PngFile(size, calls) == [fmt |-> "png", mode |-> "RGB", w |-> size, h |-> size, body |-> calls]

Exists(path) == files[path].fmt # "absent"

\* the states of the file system a run may start from
InitialFileSystems ==
  { [d |-> {}, f |-> [q \in Paths |-> Absent]],
    [d |-> {"out"}, f |-> [q \in Paths |-> Absent]],
    [d |-> Dirs, f |-> [q \in Paths |-> Absent]],
    [d |-> Dirs, f |-> [q \in Paths |-> Foreign]] }

-----------------------------------------------------------------------------
(* The state machine *)

NoCall == [pattern |-> "", path |-> "", outcome |-> "none", value |-> ""]

PatternNames ==
  {"triangular", "square", "hexagonal", "islamic_stars", "penrose", "celtic_knots",
   "floral", "escher", "zigzag"}

Init ==
  /\ gen \in Generators
  /\ \E fs \in InitialFileSystems : dirs = fs.d /\ files = fs.f
  /\ last = NoCall

\* a generate that made the output directory before dispatching on the pattern
Finish_mkdir_first(pattern, path, result, content) ==
  /\ dirs' = dirs \cup Parents(path)
  /\ IF result.err # ""
       THEN /\ last' = [pattern |-> pattern, path |-> path, outcome |-> "raised",
                        value |-> result.err]
            /\ UNCHANGED files
       ELSE /\ files' = [files EXCEPT ![path] = content]
            /\ last' = [pattern |-> pattern, path |-> path, outcome |-> "returned",
                        value |-> path]

\* the end of every generate: an exception of the pattern routine leaves the
\* method before the mkdir; otherwise mkdir, write, return output_path
Finish(pattern, path, result, content) ==
  IF result.err # ""
    THEN /\ last' = [pattern |-> pattern, path |-> path, outcome |-> "raised",
                     value |-> result.err]
         /\ UNCHANGED <<files, dirs>>
    ELSE /\ dirs' = dirs \cup Parents(path)
         /\ files' = [files EXCEPT ![path] = content]
         /\ last' = [pattern |-> pattern, path |-> path, outcome |-> "returned",
                     value |-> path]

\* a generate that stores a clamped line width in the instance
RasterGenerate_clamping(pattern, path) ==
  /\ gen.engine = "raster"
  /\ LET result == RasterDraw(gen, pattern)
     IN  Finish(pattern, path, result, PngFile(gen.size, result.body))
  /\ gen' = [gen EXCEPT !.line_width = IntVal(1)]


\* TessellationGenerator.generate(pattern_type, output_path)
RasterGenerate(pattern, path) ==
  /\ gen.engine = "raster"
  /\ LET result == RasterDraw(gen, pattern)
     IN  Finish(pattern, path, result, PngFile(gen.size, result.body))
  /\ UNCHANGED gen

\* a generate that keeps the document in the instance and appends to what
\* the previous successful call left there
SvgGenerate_accumulating(pattern, path) ==
  /\ gen.engine = "svg"
  /\ LET result == SvgContent(gen, pattern)
         earlier == IF last.outcome = "returned" THEN files[last.path].body ELSE <<>>
     IN  Finish(pattern, path, result, SvgFile(earlier \o result.body))
  /\ UNCHANGED gen

\* svg_generator.ComplexSVGTessellationGenerator.generate(pattern_type, output_path)
SvgGenerate(pattern, path) ==
  /\ gen.engine = "svg"
  /\ LET result == SvgContent(gen, pattern)
     IN  Finish(pattern, path, result, SvgFile(result.body))
  /\ UNCHANGED gen

\* complex_svg_generator.ComplexSVGTessellationGenerator.generate(pattern_type, output_path)
ComplexGenerate(pattern, path) ==
  /\ gen.engine = "complex"
  /\ LET result == ComplexContent(gen, pattern)
     IN  Finish(pattern, path, result, SvgFile(result.body))
  /\ UNCHANGED gen

\* IslamicPatternGenerator.generate(output_path)
IslamicGenerate(path) ==
  /\ gen.engine = "islamic"
  /\ LET result == IslamicContent(gen)
     IN  Finish(gen.pattern_type, path, result, SvgFile(result.body))
  /\ UNCHANGED gen

Next ==
  \/ \E pattern \in PatternNames, path \in Paths : RasterGenerate(pattern, path)
  \/ \E pattern \in PatternNames, path \in Paths : SvgGenerate(pattern, path)
  \/ \E pattern \in PatternNames, path \in Paths : ComplexGenerate(pattern, path)
  \/ \E path \in Paths : IslamicGenerate(path)

Spec == Init /\ [][Next]_vars

-----------------------------------------------------------------------------
(* Vocabulary of the properties *)

\* the patterns the dispatch of an instance's generate accepts
Supported(g) ==
  CASE g.engine = "raster" -> RasterPatterns
    [] g.engine = "svg" -> SvgPatterns
    [] g.engine = "complex" -> ComplexPatterns
    [] OTHER -> IslamicPatterns

Called == last.outcome # "none"
Returned == last.outcome = "returned"
RaisedWith(err) == last.outcome = "raised" /\ last.value = err

\* the document or image at the destination of the last call
Written == files[last.path].body

\* the elements of a document of a given kind
OfKind(doc, kind) == {i \in 1..Len(doc) : doc[i].kind = kind}

VectorEngines == {"svg", "complex", "islamic"}

-----------------------------------------------------------------------------
(* C1: for every engine, every pattern the engine supports and every canvas
   size >= 1, generate returns the given output path without raising, and
   the file at that path exists after the call.
   Refuted: with 1 <= size <= 9 the cell size size // 10 is 0, and the
   triangular, square and hexagonal routines raise. *)
C1_GenerateReturnsExistingPath ==
  (Called /\ last.pattern \in Supported(gen) /\ gen.size >= 1)
    => (Returned /\ last.value = last.path /\ Exists(last.path))

(* C2: a generate call with a pattern name (Islamic engine: a constructor
   pattern_type) outside the engine's supported set raises the
   unsupported-pattern error, and the step changes neither any file nor the
   set of existing directories. *)
C2_UnsupportedRaisesWithoutWrite ==
  [][ (last'.outcome # "none" /\ last'.pattern \notin Supported(gen'))
        => /\ last'.outcome = "raised"
           /\ last'.value = UnknownPattern
           /\ files' = files
           /\ dirs' = dirs ]_vars

\* an unsupported call was made: on an Islamic instance while the
\* destination's directory was still missing, or on another engine while
\* the destination held a file
C2_Witness ==
  /\ RaisedWith(UnknownPattern)
  /\ \/ gen.engine = "islamic" /\ "out" \notin dirs
     \/ gen.engine # "islamic" /\ Exists(last.path)

\* the pattern names of the complex engine
EightPatterns ==
  {"triangular", "square", "hexagonal", "islamic_stars", "penrose", "celtic_knots",
   "floral", "escher"}

(* C3: the complex vector engine the tests and the command line import
   (complex_svg_generator.py) accepts each of the eight pattern names: it
   never raises the unsupported-pattern error for any of them, and for a
   size of at least 10 it writes a document.
   Refuted: its dispatch knows hexagonal and floral only. *)
C3_ComplexAcceptsEightPatterns ==
  (Called /\ gen.engine = "complex" /\ last.pattern \in EightPatterns)
    => /\ ~RaisedWith(UnknownPattern)
       /\ gen.size >= CellDivisor => (Returned /\ files[last.path].fmt = "svg")

(* C4: the generator of svg_generator.py supports exactly triangular, square
   and hexagonal: generate succeeds for these three (size at least 10) and
   raises the unsupported-pattern error for every other name.
   Refuted: its dispatch accepts the five complex names too. *)
C4_SimpleSupportsExactlyThree ==
  (Called /\ gen.engine = "svg")
    => /\ (last.pattern \in {"triangular", "square", "hexagonal"} /\ gen.size >= CellDivisor)
            => Returned
       /\ last.pattern \notin {"triangular", "square", "hexagonal"}
            => RaisedWith(UnknownPattern)

(* C5: the celtic_knots document contains, for the 64 cells, the shape
   elements of the variant (row + col) mod 4 selects: 16 cells each of
   variant 0 (two curve paths, a circle), 1 (two circles, three arc paths),
   2 (one 16-vertex polygon) and 3 (two spiral paths); so it contains at
   least one path or circle element.
   Refuted: the four helpers append to their own parameter and the document
   gains nothing. *)
C5_CelticKnotsCells ==
  (Returned /\ last.pattern = "celtic_knots" /\ gen.size >= 1)
    => /\ Cardinality(OfKind(Written, "knot_curve")) = 2 * 16
       /\ Cardinality(OfKind(Written, "knot_center")) = 16
       /\ Cardinality(OfKind(Written, "loop_circle")) = 2 * 16
       /\ Cardinality(OfKind(Written, "loop_arc")) = 3 * 16
       /\ Cardinality(OfKind(Written, "cross")) = 16
       /\ \A i \in OfKind(Written, "cross") : Written[i].tag = "polygon" /\ Written[i].n = 16
       /\ Cardinality(OfKind(Written, "spiral")) = 2 * 16
       /\ Count(Written, "path") + Count(Written, "circle") >= 1

(* C6: the floral document consists of 7 x 7 units, those of odd rows
   shifted right by half a cell, each contributing 8 petal paths, 1 center
   circle and 8 stamen circles: 49 x 17 shape elements.
   Refuted: svg_generator.py drops every unit; complex_svg_generator.py
   draws 6 x 6 units without a shift. *)
C6_FloralGrid ==
  (Returned /\ last.pattern = "floral" /\ gen.size >= 1)
    => LET cell_size == gen.size \div 6
       IN  /\ Cardinality(OfKind(Written, "petal")) = 49 * 8
           /\ Cardinality(OfKind(Written, "flower_center")) = 49
           /\ Cardinality(OfKind(Written, "stamen")) = 49 * 8
           /\ Count(Written, "path") + Count(Written, "circle") = 49 * 17
           /\ \A row \in 0..6, col \in 0..6 :
                \E i \in OfKind(Written, "flower_center") :
                  Written[i].p = << 2 * col * cell_size + (IF row % 2 = 1 THEN cell_size ELSE 0),
                                    2 * row * cell_size >>

(* C7: the escher document contains 36 fish, one per cell of the 6 x 6
   grid, 18 oriented right ((row + col) even) and 18 left, each with one
   body path, one eye circle and one closed three-point tail; so it contains
   at least one path element.
   Refuted: the fish helper's output is dropped. *)
C7_EscherFish ==
  (Returned /\ last.pattern = "escher" /\ gen.size >= 1)
    => /\ \A kind \in {"fish_body", "fish_eye", "fish_tail"} :
            /\ Cardinality(OfKind(Written, kind)) = 36
            /\ Cardinality({i \in OfKind(Written, kind) : Written[i].s = <<"right">>}) = 18
            /\ Cardinality({i \in OfKind(Written, kind) : Written[i].s = <<"left">>}) = 18
       /\ \A i \in OfKind(Written, "fish_tail") : Written[i].n = 3
       /\ Count(Written, "path") >= 1

(* C8: the islamic_stars document contains one 16-vertex star polygon and
   its 8 radial lines for exactly the 13 tiles of the 5 x 5 grid with
   (row + col) even, besides the 6 horizontal, 6 vertical and 2 x 11
   diagonal connecting lines.
   Refuted: the star helper's output is dropped; only the 34 connecting
   lines are written. *)
C8_IslamicStars ==
  (Returned /\ last.pattern = "islamic_stars" /\ gen.size >= 1)
    => /\ Cardinality(OfKind(Written, "star")) = 13
       /\ \A i \in OfKind(Written, "star") : Written[i].tag = "polygon" /\ Written[i].n = 16
       /\ Cardinality(OfKind(Written, "radial")) = 13 * 8
       /\ Cardinality(OfKind(Written, "connect_h")) = 6
       /\ Cardinality(OfKind(Written, "connect_v")) = 6
       /\ Cardinality(OfKind(Written, "connect_diag_up")) = 11
       /\ Cardinality(OfKind(Written, "connect_diag_down")) = 11

(* C9: the penrose document contains exactly 30 polygon elements and no
   other shape element: 10 three-vertex triangles sharing the canvas center,
   10 three-vertex outward triangles and 10 four-vertex rhombi, one of each
   per sector 0..9. *)
C9_PenrosePolygons ==
  (Returned /\ last.pattern = "penrose")
    => /\ Count(Written, "polygon") = 30
       /\ \A t \in ShapeTags \ {"polygon"} : Count(Written, t) = 0
       /\ \A kind \in {"fan", "outward", "rhombus"} :
            /\ Cardinality(OfKind(Written, kind)) = 10
            /\ \A i \in OfKind(Written, kind) :
                 /\ Written[i].tag = "polygon"
                 /\ Written[i].n = (IF kind = "rhombus" THEN 4 ELSE 3)
            /\ \A k \in 0..9 : \E i \in OfKind(Written, kind) : Written[i].p[3] = k
       /\ \A i \in OfKind(Written, "fan") :
            Written[i].p[1] = gen.size \div 2 /\ Written[i].p[2] = gen.size \div 2

C9_Witness ==
  /\ Returned
  /\ last.pattern = "penrose"
  /\ gen.size = TestSize
  /\ Count(Written, "polygon") = 30

\* the width as the caller wrote it: 1.0, 2.5 and 2
GivenWidthText(line_width) ==
  CASE line_width = FloatVal(10) -> "1.0"
    [] line_width = FloatVal(25) -> "2.5"
    [] line_width = IntVal(2) -> "2"

(* C10: styling round trip: every document a vector generator writes has a
   single style-carrying group, which declares exactly the constructor's
   stroke color and its stroke width as given, and a background rectangle
   whose fill is exactly the constructor's background color. *)
C10_StylingRoundTrip ==
  (Returned /\ gen.engine \in VectorEngines)
    => LET groups == {i \in 1..Len(Written) : Written[i].tag = "g"}
           rects == {i \in 1..Len(Written) : Written[i].tag = "rect"}
       IN  /\ Cardinality(groups) = 1
           /\ \A i \in groups :
                Written[i].s = <<gen.stroke_color, GivenWidthText(gen.line_width), "none">>
           /\ Cardinality(rects) = 1
           /\ \A i \in rects :
                Written[i].kind = "background" /\ Written[i].s = <<gen.background_color>>

C10_Witness ==
  /\ Returned
  /\ gen.engine \in VectorEngines
  /\ gen.stroke_color = "#FF0000"
  /\ gen.line_width = FloatVal(25)
  /\ \E i \in 1..Len(Written) : Written[i].tag = "g" /\ Written[i].s[2] = "2.5"

(* C11: every document a vector generator writes has a root element, and
   that element declares a width and a height both equal to the generator's
   size. *)
C11_RootDeclaresSize ==
  (Returned /\ gen.engine \in VectorEngines)
    => LET roots == {i \in 1..Len(Written) : Written[i].tag = "svg"}
       IN  /\ Cardinality(roots) = 1
           /\ \A i \in roots : Written[i].p[1] = gen.size /\ Written[i].p[2] = gen.size

C11_Witness ==
  /\ Returned
  /\ gen.engine = "islamic"
  /\ gen.size = GridSize
  /\ \E i \in 1..Len(Written) : Written[i].tag = "svg" /\ Written[i].p[1] = GridSize

(* C12: for each raster pattern and every size for which generate succeeds,
   the saved image is size x size pixels in RGB mode, whatever the pattern
   and the line width. *)
C12_RasterImageShape ==
  (Returned /\ gen.engine = "raster")
    => /\ files[last.path].fmt = "png"
       /\ files[last.path].mode = "RGB"
       /\ files[last.path].w = gen.size
       /\ files[last.path].h = gen.size

C12_Witness ==
  /\ Returned
  /\ gen.engine = "raster"
  /\ last.pattern = "hexagonal"
  /\ gen.line_width = IntVal(1)
  /\ files[last.path].w = TestSize

-----------------------------------------------------------------------------
(* The hexagonal routines of the three grid engines over a range of sizes *)

\* the largest canvas size of the range
MaxHexSize == 40

HexSizes == CellDivisor..MaxHexSize

HexGenerators ==
  {NewRaster(z, IntVal(2)) : z \in HexSizes}
  \cup {NewSvg(z, DefaultStyle.line_width, DefaultStyle.stroke_color,
               DefaultStyle.background_color) : z \in HexSizes}
  \cup {NewComplex(z, DefaultStyle.line_width, DefaultStyle.stroke_color,
                   DefaultStyle.background_color) : z \in HexSizes}

HexInit ==
  /\ gen \in HexGenerators
  /\ dirs = {}
  /\ files = [q \in Paths |-> Absent]
  /\ last = NoCall

HexNext ==
  \E path \in Paths :
    \/ RasterGenerate("hexagonal", path)
    \/ SvgGenerate("hexagonal", path)
    \/ ComplexGenerate("hexagonal", path)

HexSpec == HexInit /\ [][HexNext]_vars

(* C13: for every size >= 10 the hexagonal pattern emits exactly
   (size // rowHeight + 2) x (size // colWidth + 2) hexagons, with
   r = size // 10, rowHeight = floor(1.5 r) and colWidth = floor(sqrt(3) r);
   the number depends on the size alone, so it is the same for the raster
   engine and for both vector generators. *)
C13_HexagonCount ==
  (Returned /\ last.pattern = "hexagonal" /\ gen.size >= 10)
    => LET r == gen.size \div 10
           rowHeight == CHOOSE h \in 0..(2 * r) : 2 * h <= 3 * r /\ 3 * r < 2 * (h + 1)
           colWidth == CHOOSE c \in 0..(2 * r) :
                         c * c <= 3 * r * r /\ 3 * r * r < (c + 1) * (c + 1)
       IN  /\ Count(Written, "polygon")
                = ((gen.size \div rowHeight) + 2) * ((gen.size \div colWidth) + 2)
           /\ \A i \in 1..Len(Written) :
                Written[i].tag = "polygon" => Written[i].kind = "hexagon" /\ Written[i].n = 6

C13_Witness ==
  /\ Returned
  /\ last.pattern = "hexagonal"
  /\ gen.engine = "raster"
  /\ gen.size = 25
  /\ Count(Written, "polygon") = ((25 \div 3) + 2) * ((25 \div 3) + 2)

(* C14: determinism: no generate call changes the instance's parameters,
   and a successful generate call that follows a successful call with the
   same pattern on the same parameters writes the identical document or
   image, whatever calls came before the first of the two. *)
C14_Determinism ==
  [][ /\ gen' = gen
      /\ (Returned /\ last'.outcome = "returned" /\ last'.pattern = last.pattern)
           => files'[last'.path] = files[last.path] ]_vars

C14_Witness ==
  /\ Returned
  /\ last.pattern = "penrose"
  /\ \A q \in Paths : files[q].fmt = "svg" /\ Count(files[q].body, "polygon") = 30

\* the positions of the elements of a document with a given tag
Positions(doc, tag) == {i \in 1..Len(doc) : doc[i].tag = tag}

(* C15: every vector document is assembled in this order: the XML
   declaration, the opening root element, the background rectangle, exactly
   one opening style group with fill none, the shape elements, the group's
   closing tag, the root's closing tag; every line, polygon, path and circle
   lies between the group's opening and closing tags, and the root and the
   group are each opened once and closed once. *)
C15_DocumentOrder ==
  (Returned /\ gen.engine \in VectorEngines)
    => LET doc == Written
           One(tag) == CHOOSE i \in Positions(doc, tag) : TRUE
       IN  /\ \A tag \in {"?xml", "svg", "rect", "g", "/g", "/svg"} :
                Cardinality(Positions(doc, tag)) = 1
           /\ One("?xml") = 1
           /\ One("svg") = 2
           /\ One("svg") < One("rect")
           /\ One("rect") < One("g")
           /\ doc[One("g")].s[3] = "none"
           /\ One("g") < One("/g")
           /\ One("/g") = Len(doc) - 1
           /\ One("/svg") = Len(doc)
           /\ \A i \in 1..Len(doc) :
                doc[i].tag \in ShapeTags => (One("g") < i /\ i < One("/g"))
           /\ \A i \in 1..Len(doc) :
                doc[i].tag \in ShapeTags \cup {"?xml", "svg", "desc", "rect", "g", "/g", "/svg"}

C15_Witness ==
  /\ Returned
  /\ gen.engine = "islamic"
  /\ gen.pattern_type = "eight_fold"
  /\ gen.size = TestSize
  /\ \E i \in Positions(Written, "g") : \E j \in Positions(Written, "polygon") : i < j

-----------------------------------------------------------------------------
(* A vector generate call statement by statement: last.outcome is the call's
   position ("built": svg_content is computed; "dirs_made": the parent
   directories exist; "opened": open(output_path, 'w') has returned) *)

\* svg_content of the call, by the class of the instance
VectorContent(g, pattern) ==
  CASE g.engine = "svg" -> SvgContent(g, pattern)
    [] g.engine = "complex" -> ComplexContent(g, pattern)
    [] g.engine = "islamic" -> IslamicContent(g)

InProgress == last.outcome \in {"built", "dirs_made", "opened"}

\* an exception of f.write or of the close at the end of the with block
WriteFailed == "OSError"

\* the dispatch: svg_content = self._generate_..._pattern(), or the raise
StepBuild(pattern, path) ==
  /\ ~InProgress
  /\ gen.engine \in VectorEngines
  /\ gen.engine = "islamic" => pattern = gen.pattern_type
  /\ LET result == VectorContent(gen, pattern)
     IN  last' = IF result.err # ""
                   THEN [pattern |-> pattern, path |-> path, outcome |-> "raised",
                         value |-> result.err]
                   ELSE [pattern |-> pattern, path |-> path, outcome |-> "built",
                         value |-> ""]
  /\ UNCHANGED <<gen, files, dirs>>

\* output_path.parent.mkdir(parents=True, exist_ok=True)
StepMkdir ==
  /\ last.outcome = "built"
  /\ dirs' = dirs \cup Parents(last.path)
  /\ last' = [last EXCEPT !.outcome = "dirs_made"]
  /\ UNCHANGED <<gen, files>>

\* open(output_path, 'w'): the file is created, or truncated to nothing
StepOpen ==
  /\ last.outcome = "dirs_made"
  /\ files' = [files EXCEPT ![last.path] = SvgFile(<<>>)]
  /\ last' = [last EXCEPT !.outcome = "opened"]
  /\ UNCHANGED <<gen, dirs>>

\* f.write(svg_content), the close of the with block, return output_path
StepWrite ==
  /\ last.outcome = "opened"
  /\ files' = [files EXCEPT ![last.path] = SvgFile(VectorContent(gen, last.pattern).body)]
  /\ last' = [last EXCEPT !.outcome = "returned", !.value = last.path]
  /\ UNCHANGED <<gen, dirs>>

\* f.write or the flush at close raises (no space left, text that cannot be
\* encoded): the with block closes the file with what reached it, nothing or
\* a leading part, and the exception leaves generate
StepWriteFails ==
  /\ last.outcome = "opened"
  /\ LET doc == VectorContent(gen, last.pattern).body
     IN  \E n \in {0, Len(doc) \div 2} :
           files' = [files EXCEPT ![last.path] = SvgFile(SubSeq(doc, 1, n))]
  /\ last' = [last EXCEPT !.outcome = "raised", !.value = WriteFailed]
  /\ UNCHANGED <<gen, dirs>>

\* the vector instances of the tests' size with the default style
WriteGenerators ==
  {g \in Generators : /\ g.engine \in VectorEngines
                      /\ g.size = TestSize
                      /\ g.stroke_color = DefaultStyle.stroke_color}

WriteInit ==
  /\ gen \in WriteGenerators
  /\ \E fs \in InitialFileSystems : dirs = fs.d /\ files = fs.f
  /\ last = NoCall

WriteNext ==
  \/ \E pattern \in PatternNames \cup IslamicPatternTypes, path \in Paths :
       StepBuild(pattern, path)
  \/ StepMkdir
  \/ StepOpen
  \/ StepWrite
  \/ StepWriteFails

WriteSpec == WriteInit /\ [][WriteNext]_vars

(* C16: a vector generate call builds the complete document first, then
   creates the parent directories, then writes the file atomically: every
   step of the call, a failing write included, leaves at the destination
   its previous content (or no file) or the complete document, never an
   empty or partial one.
   Refuted: open(output_path, 'w') empties the destination before f.write
   runs, and a failing write leaves it empty or partial. *)
C16_AtomicWrite ==
  [][ \A q \in Paths :
        files'[q] # files[q]
          => files'[q] = SvgFile(VectorContent(gen, last'.pattern).body) ]_vars

-----------------------------------------------------------------------------
(* cli/main.py: one run of the command line.  last carries the run's
   arguments besides its outcome. *)

\* --size default
DefaultSize == 800

\* the choices of --pattern, --complexity and --format
CliPatterns ==
  {"triangular", "square", "hexagonal", "islamic_stars", "islamic_eight_fold",
   "islamic_ten_fold", "islamic_twelve_fold", "penrose", "celtic_knots", "floral", "escher"}
Complexities == {"simple", "complex"}
Formats == {"svg", "png"}

\* the names tessellations.core.svg_generator defines
SvgGeneratorNames == {"PatternType", "ComplexSVGTessellationGenerator"}

\* from tessellations.core.svg_generator import SVGTessellationGenerator
ImportFailed == "ImportError: cannot import name 'SVGTessellationGenerator'"

\* no generator has been constructed
NoGenerator ==
  [engine |-> "none", size |-> 0, line_width |-> IntVal(0), stroke_color |-> "",
   background_color |-> "", pattern_type |-> ""]

CliIslamicPatterns == {"islamic_eight_fold", "islamic_ten_fold", "islamic_twelve_fold"}

\* args.pattern.replace("islamic_", "")
IslamicTypeOf(pattern) ==
  CASE pattern = "islamic_eight_fold" -> "eight_fold"
    [] pattern = "islamic_ten_fold" -> "ten_fold"
    [] pattern = "islamic_twelve_fold" -> "twelve_fold"

\* the class main instantiates (lines 93-130)
Route(pattern, complexity, format) ==
  IF pattern \in CliIslamicPatterns THEN "IslamicPatternGenerator"
  ELSE IF format = "svg"
    THEN IF complexity = "complex"
              \/ pattern \in {"islamic_stars", "penrose", "celtic_knots", "floral", "escher"}
           THEN "ComplexSVGTessellationGenerator"
           ELSE "SVGTessellationGenerator"
    ELSE "TessellationGenerator"

\* the instance main constructs from the defaults of the other arguments;
\* ComplexSVGTessellationGenerator is the class of complex_svg_generator.py
CliGenerator(pattern, complexity, format) ==
  LET route == Route(pattern, complexity, format)
  IN  CASE route = "IslamicPatternGenerator" ->
             NewIslamic(DefaultSize, FloatVal(10), "#000000", "#FFFFFF", IslamicTypeOf(pattern))
        [] route = "TessellationGenerator" -> NewRaster(DefaultSize, IntVal(1))
        [] OTHER -> NewComplex(DefaultSize, FloatVal(10), "#000000", "#FFFFFF")

\* generator.generate(...) of the constructed instance
CliContent(g, pattern) ==
  CASE g.engine = "islamic" -> IslamicContent(g)
    [] g.engine = "raster" -> RasterDraw(g, pattern)
    [] OTHER -> ComplexContent(g, pattern)

\* one run: the module's imports, then main()
CliMain(pattern, complexity, format) ==
  LET args == [pattern |-> pattern, complexity |-> complexity, format |-> format]
      Ended(path, outcome, value) ==
        [pattern |-> pattern, path |-> path, outcome |-> outcome, value |-> value,
         args |-> args]
  IN  IF "SVGTessellationGenerator" \notin SvgGeneratorNames
        THEN /\ last' = Ended("", "raised", ImportFailed)
             /\ UNCHANGED <<gen, files, dirs>>
        ELSE LET g == CliGenerator(pattern, complexity, format)
                 result == CliContent(g, pattern)
                 content == IF g.engine = "raster" THEN PngFile(g.size, result.body)
                            ELSE SvgFile(result.body)
             IN  /\ gen' = g
                 /\ dirs' = dirs \cup {"out"}
                 /\ IF result.err # ""
                      THEN /\ last' = Ended("out/a", "raised", result.err)
                           /\ UNCHANGED files
                      ELSE /\ files' = [files EXCEPT !["out/a"] = content]
                           /\ last' = Ended("out/a", "returned", "out/a")

CliInit ==
  /\ gen = NoGenerator
  /\ \E fs \in InitialFileSystems : dirs = fs.d /\ files = fs.f
  /\ last = NoCall

CliNext ==
  \E pattern \in CliPatterns, complexity \in Complexities, format \in Formats :
    CliMain(pattern, complexity, format)

CliSpec == CliInit /\ [][CliNext]_vars

\* a pattern/format combination no engine serves
InvalidCombination(args) ==
  args.format = "png" /\ args.pattern \notin {"triangular", "square", "hexagonal"}

(* C17: the command line rejects every pattern/format combination the
   selected engine cannot serve (png with a pattern outside triangular,
   square, hexagonal, the islamic_* patterns included): the run ends with a
   rejection of the combination, no generator was constructed or invoked and
   no output file was written.
   Refuted: the run ends in the import error of the module, for invalid and
   valid combinations alike; main has no check of the combination. *)
C17_CliRejectsInvalidCombinations ==
  (last.outcome # "none" /\ InvalidCombination(last.args))
    => /\ last.outcome = "rejected"
       /\ gen = NoGenerator
       /\ \A q \in Paths : files[q].fmt \in {"absent", "foreign"}

-----------------------------------------------------------------------------
(* Two generate calls running at the same time on two instances.  gen and
   last are pairs here: gen[i] is the instance of call i and last[i] its
   pattern, output path and position. *)

Calls == {1, 2}

\* the output paths of the two calls: both below the directory "out"
ConcPath(i) == IF i = 1 THEN "out/a" ELSE "out/deep/b"

\* output_path.parent
ParentDir(path) == IF path = "out/a" THEN "out" ELSE "out/deep"

\* the (instance, pattern) pairs of successful calls: the instances of the
\* tests' size with the default style, each with the patterns it supports
ConcJobs ==
  UNION { {[g |-> g, pattern |-> p] :
             p \in (IF g.engine = "islamic" THEN {g.pattern_type} ELSE Supported(g))} :
          g \in {h \in Generators :
                   /\ h.size = TestSize
                   /\ h.engine = "islamic" => h.pattern_type \in IslamicPatterns
                   /\ h.engine = "raster" => h.line_width = IntVal(2)
                   /\ h.engine # "raster" => h.stroke_color = DefaultStyle.stroke_color} }

\* what call i computes before it touches the file system
ConcResult(i) ==
  IF gen[i].engine = "raster" THEN RasterDraw(gen[i], last[i].pattern)
  ELSE VectorContent(gen[i], last[i].pattern)

\* the file call i saves
ConcFile(i) ==
  IF gen[i].engine = "raster" THEN PngFile(gen[i].size, ConcResult(i).body)
  ELSE SvgFile(ConcResult(i).body)

At(i, position) == last[i].outcome = position
Goto(i, position) == last' = [last EXCEPT ![i].outcome = position]

\* the dispatch and the pattern routine
ConcBuild(i) ==
  /\ At(i, "called")
  /\ IF ConcResult(i).err # ""
       THEN last' = [last EXCEPT ![i].outcome = "raised", ![i].value = ConcResult(i).err]
       ELSE Goto(i, "built")
  /\ UNCHANGED <<gen, files, dirs>>

\* a mkdir without exist_ok: os.mkdir of an existing directory raises
ConcMkdir_exclusive(i) ==
  /\ At(i, "built")
  /\ LET d == ParentDir(last[i].path)
     IN  IF d \in dirs
           THEN /\ last' = [last EXCEPT ![i].outcome = "raised",
                                        ![i].value = "FileExistsError"]
                /\ UNCHANGED dirs
           ELSE IF d = "out" \/ "out" \in dirs
             THEN dirs' = dirs \cup {d} /\ Goto(i, "dirs_made")
             ELSE UNCHANGED dirs /\ Goto(i, "parent_missing")
  /\ UNCHANGED <<gen, files>>

\* Path.mkdir(parents=True, exist_ok=True), its first os.mkdir: the
\* directory is made, or exists already (FileExistsError, swallowed), or its
\* own parent is missing (FileNotFoundError, handled by the next two steps)
ConcMkdir(i) ==
  /\ At(i, "built")
  /\ LET d == ParentDir(last[i].path)
     IN  IF d \in dirs \/ d = "out" \/ "out" \in dirs
           THEN dirs' = dirs \cup {d} /\ Goto(i, "dirs_made")
           ELSE UNCHANGED dirs /\ Goto(i, "parent_missing")
  /\ UNCHANGED <<gen, files>>

\* self.parent.mkdir(parents=True, exist_ok=True)
ConcMkdirParent(i) ==
  /\ At(i, "parent_missing")
  /\ dirs' = dirs \cup {"out"}
  /\ Goto(i, "parent_made")
  /\ UNCHANGED <<gen, files>>

\* self.mkdir(mode, parents=False, exist_ok=exist_ok)
ConcMkdirRetry(i) ==
  /\ At(i, "parent_made")
  /\ dirs' = dirs \cup {ParentDir(last[i].path)}
  /\ Goto(i, "dirs_made")
  /\ UNCHANGED <<gen, files>>

\* open(output_path, 'w'), or the open of image.save
ConcOpen(i) ==
  /\ At(i, "dirs_made")
  /\ files' = [files EXCEPT ![last[i].path] = [ConcFile(i) EXCEPT !.body = <<>>]]
  /\ Goto(i, "opened")
  /\ UNCHANGED <<gen, dirs>>

\* the write, the close, return output_path
ConcWrite(i) ==
  /\ At(i, "opened")
  /\ files' = [files EXCEPT ![last[i].path] = ConcFile(i)]
  /\ last' = [last EXCEPT ![i].outcome = "returned", ![i].value = last[i].path]
  /\ UNCHANGED <<gen, dirs>>

ConcInit ==
  /\ \E j1 \in ConcJobs, j2 \in ConcJobs :
       /\ gen = <<j1.g, j2.g>>
       /\ last = [i \in Calls |->
                    [pattern |-> (IF i = 1 THEN j1.pattern ELSE j2.pattern),
                     path |-> ConcPath(i), outcome |-> "called", value |-> ""]]
  /\ dirs = {}
  /\ files = [q \in Paths |-> Absent]

ConcNext ==
  \E i \in Calls :
    \/ ConcBuild(i)
    \/ ConcMkdir(i)
    \/ ConcMkdirParent(i)
    \/ ConcMkdirRetry(i)
    \/ ConcOpen(i)
    \/ ConcWrite(i)

ConcSpec == ConcInit /\ [][ConcNext]_vars

\* the file a generate call of instance g writes when it runs alone
ProducedAlone(g, pattern) ==
  CASE g.engine = "raster" -> PngFile(g.size, RasterDraw(g, pattern).body)
    [] g.engine = "svg" -> SvgFile(SvgContent(g, pattern).body)
    [] g.engine = "complex" -> SvgFile(ComplexContent(g, pattern).body)
    [] g.engine = "islamic" -> SvgFile(IslamicContent(g).body)

(* C18: two generate calls running at the same time on two instances with
   two output paths below the same, initially missing, directory do not
   interfere: under every interleaving neither call raises, and once a call
   has returned its file holds exactly what the call writes when it runs
   alone, whatever the other call does afterwards. *)
C18_ConcurrentCallsIndependent ==
  \A i \in Calls :
    /\ last[i].outcome # "raised"
    /\ At(i, "returned")
         => /\ last[i].value = last[i].path
            /\ ParentDir(last[i].path) \in dirs
            /\ files[last[i].path] = ProducedAlone(gen[i], last[i].pattern)

C18_Witness ==
  /\ \A i \in Calls : At(i, "returned")
  /\ gen[1].engine = "raster"
  /\ gen[2].engine = "islamic"
  /\ files["out/a"].fmt = "png"
  /\ files["out/deep/b"].fmt = "svg"
  /\ Count(files["out/deep/b"].body, "polygon") > 0

(* C19: with a canvas size of 0 (or below), generate on any engine and any
   pattern the engine supports raises no error: it writes the output file,
   degenerate as it may be, and returns the path.
   Refuted: at size 0 the cell size is 0; the triangular and square routines
   raise on range(.., .., 0), the hexagonal routines and the connectors of
   the Islamic engine divide by zero. *)
C19_DegenerateSizeWritesFile ==
  (Called /\ last.pattern \in Supported(gen) /\ gen.size <= 0)
    => (Returned /\ last.value = last.path /\ Exists(last.path))

(* C20: the document of each Islamic family contains its diamond connectors
   as 4-vertex polygons: for eight_fold 20 horizontal and 20 vertical ones,
   for ten_fold and for twelve_fold 12 horizontal, 12 vertical and 9
   diagonal ones.
   Refuted: the eight_fold and ten_fold loops drop what the connector helper
   returns, and the twelve_fold loop has no diagonal connector. *)
C20_DiamondConnectors ==
  (Returned /\ gen.engine = "islamic" /\ gen.size >= 1)
    => LET Diamonds(kind) ==
             {i \in OfKind(Written, kind) : Written[i].tag = "polygon" /\ Written[i].n = 4}
       IN  IF gen.pattern_type = "eight_fold"
             THEN /\ Cardinality(Diamonds("diamond_h")) = 20
                  /\ Cardinality(Diamonds("diamond_v")) = 20
             ELSE /\ Cardinality(Diamonds("diamond_h")) = 12
                  /\ Cardinality(Diamonds("diamond_v")) = 12
                  /\ Cardinality(Diamonds("diamond_d")) = 9


(* C21: every diamond connector of a written Islamic document has its two
   axis end vertices at the centers of two adjacent units (odd half-unit
   coordinates, one unit = two half units apart, horizontally or
   vertically), and its other two vertices on the perpendicular through the
   midpoint at plus and minus the half-width.
   Refuted: the second end vertex is center + unit_size / 2, the midpoint of
   the unit's edge, so the axis is half a unit long. *)
C21_DiamondBetweenAdjacentCenters ==
  (Returned /\ gen.engine = "islamic")
    => \A i \in 1..Len(Written) :
         (Written[i].tag = "polygon" /\ Written[i].kind \in {"diamond_h", "diamond_v", "diamond_d"})
           => LET p == Written[i].p
                  dx == p[3] - p[1]
                  dy == p[4] - p[2]
              IN  /\ \A k \in 1..4 : p[k] % 2 = 1
                  /\ <<dx, dy>> \in {<<2, 0>>, <<0, 2>>}
                  /\ p[5] * dx + p[6] * dy = 0
                  /\ <<p[5], p[6]>> # <<0, 0>>
                  /\ p[7] > 0


\* number of vertices of the secondary polygon of each Islamic family
SecondaryVertices(pattern_type) ==
  CASE pattern_type = "eight_fold" -> 8
    [] pattern_type = "ten_fold" -> 10
    [] OTHER -> 12

(* C22: in every unit of a written Islamic document each cross-line of the
   secondary n-gon joins a vertex k to its antipodal vertex k + n/2 for the
   octagon and the decagon; for the dodecagon it joins antipodal vertices
   or another pair of non-adjacent vertices.
   Refuted: the decagon's lines join the even vertices 2 i and
   ((i + j) % 5) * 2, whose distance is even and never 5. *)
C22_CrossLinesAntipodal ==
  (Returned /\ gen.engine = "islamic")
    => LET n == SecondaryVertices(gen.pattern_type)
       IN  \A i \in OfKind(Written, "cross") :
             LET d == (Written[i].p[4] - Written[i].p[3]) % n
             IN  IF n = 12 THEN d = 6 \/ d \notin {0, 1, 11}
                 ELSE d = n \div 2


\* unit_size = self.size / 4 (eight_fold), self.size / 3 (ten_fold, twelve_fold)
UnitDivisor(pattern_type) == IF pattern_type = "eight_fold" THEN 4 ELSE 3

\* the number n of points of the family's star
StarPoints(pattern_type) ==
  CASE pattern_type = "eight_fold" -> 8
    [] pattern_type = "ten_fold" -> 10
    [] OTHER -> 12

\* the elements of a document that belong to the unit at (row, col)
InUnit(doc, kind, unit) ==
  {i \in OfKind(doc, kind) : <<doc[i].p[1], doc[i].p[2]>> = unit}

(* C23: a written Islamic document has one unit for every (row, col) of the
   interior grid (the units whose cell starts inside the canvas) plus one
   overscan ring, 36 units for eight_fold and 25 for ten_fold and
   twelve_fold, and every unit has exactly one 2n-vertex star polygon, one
   inscribed n-gon, n center-to-vertex lines and n decorative arcs. *)
C23_UnitsAndTheirElements ==
  (Returned /\ gen.engine = "islamic")
    => LET n == StarPoints(gen.pattern_type)
           d == UnitDivisor(gen.pattern_type)
           Units == (-1..d) \X (-1..d)
       IN  /\ Cardinality(Units) = (IF gen.pattern_type = "eight_fold" THEN 36 ELSE 25)
           /\ {<<Written[i].p[1], Written[i].p[2]>> : i \in OfKind(Written, "star")} = Units
           /\ \A u \in Units :
                /\ Cardinality(InUnit(Written, "star", u)) = 1
                /\ \A i \in InUnit(Written, "star", u) :
                     Written[i].tag = "polygon" /\ Written[i].n = 2 * n
                /\ Cardinality(InUnit(Written, "inner_polygon", u)) = 1
                /\ \A i \in InUnit(Written, "inner_polygon", u) :
                     Written[i].tag = "polygon" /\ Written[i].n = n
                /\ Cardinality(InUnit(Written, "spoke", u)) = n
                /\ Cardinality(InUnit(Written, "arc", u)) = n
                /\ \A i \in InUnit(Written, "arc", u) : Written[i].tag = "path"

C23_Witness ==
  /\ Returned /\ gen.engine = "islamic" /\ gen.pattern_type = "twelve_fold"
  /\ Cardinality(OfKind(Written, "star")) = 25
  /\ Cardinality(OfKind(Written, "arc")) = 300


(* C24: the large-arc flag of every decorative arc of a written Islamic
   document is 1 exactly when its end angle minus its start angle exceeds
   pi (2 (j - i) > n for the vertices i and j of the n-gon); the arcs join
   each inner vertex i to vertex (i + 1) mod n, and the flag is 0 for every
   one of them, the wrapping arc from n - 1 to 0 included. *)
C24_LargeArcFlagZero ==
  (Returned /\ gen.engine = "islamic")
    => LET n == StarPoints(gen.pattern_type)
       IN  \A a \in OfKind(Written, "arc") :
             LET i == Written[a].p[3]
                 j == Written[a].p[4]
                 flag == Written[a].p[5]
             IN  /\ i \in 0..(n - 1)
                 /\ j = (i + 1) % n
                 /\ flag \in {0, 1}
                 /\ (flag = 1) <=> (2 * (j - i) > n)
                 /\ flag = 0

C24_Witness ==
  /\ Returned /\ gen.engine = "islamic" /\ gen.pattern_type = "ten_fold"
  /\ \E a \in OfKind(Written, "arc") :
       Written[a].p[3] = 9 /\ Written[a].p[4] = 0 /\ Written[a].p[5] = 0


\* the largest element of a non-empty finite set of integers
Max(S) == CHOOSE m \in S : \A k \in S : k <= m

\* the tile index space of the vector generator's grid patterns: the unit
\* and the doubled x and y of every tile's corner (x += cell_size / 2 on the
\* odd rows of floral)
Svg_tile_grid(size, pattern) ==
  CASE pattern = "islamic_stars" ->
         LET tile_size == size \div 4
         IN  [unit |-> tile_size,
              xs |-> {2 * (col * tile_size - tile_size \div 2) : col \in 0..4},
              ys |-> {2 * (row * tile_size - tile_size \div 2) : row \in 0..4}]
    [] pattern = "celtic_knots" ->
         LET cell_size == size \div 8
         IN  [unit |-> cell_size,
              xs |-> {2 * col * cell_size : col \in 0..7},
              ys |-> {2 * row * cell_size : row \in 0..7}]
    [] pattern = "floral" ->
         LET cell_size == size \div 6
         IN  [unit |-> cell_size,
              xs |-> {2 * col * cell_size + (row % 2) * cell_size : row \in 0..6, col \in 0..6},
              ys |-> {2 * row * cell_size : row \in 0..6}]
    [] OTHER ->
         LET cell_size == size \div 6
         IN  [unit |-> cell_size,
              xs |-> {2 * col * cell_size : col \in 0..5},
              ys |-> {2 * row * cell_size : row \in 0..5}]

\* the 6 x 6 units of the floral pattern of complex_svg_generator.py
Complex_tile_grid(size) ==
  LET cell_size == size \div 6
  IN  [unit |-> cell_size,
       xs |-> {2 * col * cell_size : col \in 0..5},
       ys |-> {2 * row * cell_size : row \in 0..5}]

\* the tile index space read from a written hexagonal document: the hexagon
\* centers, one column width and one row height apart
HexTileGrid(doc, size) ==
  [unit |-> ColWidth(size \div CellDivisor),
   xs |-> {2 * doc[i].p[1] : i \in OfKind(doc, "hexagon")},
   ys |-> {2 * doc[i].p[2] : i \in OfKind(doc, "hexagon")}]

\* the tile index space read from a written Islamic document, scaled by the
\* unit divisor d: the unit at (row, col) has its corner at col * size / d
IslamicTileGrid(doc, size) ==
  [unit |-> size,
   xs |-> {2 * doc[i].p[2] * size : i \in OfKind(doc, "star")},
   ys |-> {2 * doc[i].p[1] * size : i \in OfKind(doc, "star")}]

\* the tiles reach the canvas edge in x and in y, and one further tile
\* column and row starts at or beyond it
CoversWithOverscan(grid, edge) ==
  /\ Max(grid.xs) + 2 * grid.unit >= 2 * edge
  /\ Max(grid.ys) + 2 * grid.unit >= 2 * edge
  /\ Max(grid.xs) >= 2 * edge
  /\ Max(grid.ys) >= 2 * edge

GridPatterns == {"hexagonal", "islamic_stars", "celtic_knots", "floral", "escher"}

(* C25: for every grid pattern of every engine and every size >= 10 the
   tile index space of a successful run covers the full canvas with a
   one-unit overscan margin: the tiles extend at least to the right and
   bottom canvas edges, and at least one further tile row and column lies
   beyond.
   Refuted: celtic_knots has 8 x 8 cells of size // 8, escher 6 x 6 of
   size // 6 and the complex engine's floral 6 x 6 of size // 6, none with
   a cell beyond the edge; at size 10 the celtic cells end at 8. *)
C25_TilesCoverCanvasWithOverscan ==
  (Returned /\ gen.size >= CellDivisor)
    => /\ (last.pattern = "hexagonal")
            => CoversWithOverscan(HexTileGrid(Written, gen.size), gen.size)
       /\ (gen.engine = "islamic")
            => CoversWithOverscan(IslamicTileGrid(Written, gen.size),
                                  gen.size * UnitDivisor(gen.pattern_type))
       /\ (gen.engine = "svg" /\ last.pattern \in GridPatterns \ {"hexagonal"})
            => CoversWithOverscan(Svg_tile_grid(gen.size, last.pattern), gen.size)
       /\ (gen.engine = "complex" /\ last.pattern = "floral")
            => CoversWithOverscan(Complex_tile_grid(gen.size), gen.size)


\* the lines of a document whose end points differ by dy in y, from x = 0
\* to x = size
LinesAcross(doc, size, dy) ==
  {i \in 1..Len(doc) : /\ doc[i].tag = "line"
                       /\ doc[i].p[1] = 0 /\ doc[i].p[3] = size
                       /\ doc[i].p[4] - doc[i].p[2] = dy}

(* C26: for every size >= 10 with c = size // 10 the triangular pattern of
   the raster and of the vector engine consists only of straight lines:
   horizontals at y = 0, c, 2c, ... <= size and two diagonal families of
   equal count from x = 0 to x = size with |dy| = size, whose end ordinates
   step by c over -size .. 2 size; the document has at least one line and
   no polygon. *)
C26_TriangularLines ==
  (Returned /\ last.pattern = "triangular" /\ gen.size >= CellDivisor)
    => LET size == gen.size
           c == size \div CellDivisor
           shapes == {i \in 1..Len(Written) : Written[i].tag \in ShapeTags}
           horizontal == LinesAcross(Written, size, 0)
           up == LinesAcross(Written, size, 0 - size)
           down == LinesAcross(Written, size, size)
       IN  /\ shapes = horizontal \cup up \cup down
           /\ {Written[i].p[2] : i \in horizontal} = {k * c : k \in 0..(size \div c)}
           /\ Cardinality(up) = Cardinality(down)
           /\ {Written[i].p[4] : i \in up} = {k * c - size : k \in 0..((2 * size) \div c)}
           /\ {Written[i].p[2] : i \in down} = {k * c - size : k \in 0..((2 * size) \div c)}
           /\ \A i \in up \cup down :
                {Written[i].p[2], Written[i].p[4]} \subseteq (0 - size)..(2 * size)
           /\ Count(Written, "line") >= 1
           /\ Count(Written, "polygon") = 0

C26_Witness ==
  /\ Returned /\ last.pattern = "triangular" /\ gen.engine = "svg"
  /\ gen.size = TestSize
  /\ Cardinality(LinesAcross(Written, gen.size, gen.size)) = 21


\* the hexagons of a document in the order they were drawn
Hexagons(doc) == SelectSeq(doc, LAMBDA e : e.kind = "hexagon")

(* C27: in the hexagonal pattern of every engine the hexagon at (row, col),
   the (row * numCols + col)-th drawn, has its center at cy = row *
   rowHeight and cx = col * colWidth on even rows, cx = col * colWidth +
   floor(colWidth / 2) on odd rows; rows that follow each other are shifted
   by floor(colWidth / 2), and no two hexagons of a document share a
   center. *)
C27_HexagonCenters ==
  (Returned /\ last.pattern = "hexagonal" /\ gen.size >= CellDivisor)
    => LET r == gen.size \div CellDivisor
           rowHeight == CHOOSE h \in 0..(2 * r) : 2 * h <= 3 * r /\ 3 * r < 2 * (h + 1)
           colWidth == CHOOSE c \in 0..(2 * r) :
                         c * c <= 3 * r * r /\ 3 * r * r < (c + 1) * (c + 1)
           numCols == (gen.size \div colWidth) + 2
           hex == Hexagons(Written)
           row(k) == (k - 1) \div numCols
           col(k) == (k - 1) % numCols
       IN  /\ \A k \in 1..Len(hex) :
                /\ hex[k].p[2] = row(k) * rowHeight
                /\ hex[k].p[1] = col(k) * colWidth
                                 + (IF row(k) % 2 = 1 THEN colWidth \div 2 ELSE 0)
           /\ \A k \in 1..(Len(hex) - numCols) :
                LET shift == hex[k + numCols].p[1] - hex[k].p[1]
                IN  shift \in {colWidth \div 2, 0 - (colWidth \div 2)}
           /\ \A j, k \in 1..Len(hex) :
                j # k => <<hex[j].p[1], hex[j].p[2]>> # <<hex[k].p[1], hex[k].p[2]>>

C27_Witness ==
  /\ Returned /\ last.pattern = "hexagonal" /\ gen.engine = "complex"
  /\ gen.size = 20
  /\ \E k \in 1..Len(Hexagons(Written)) :
       Hexagons(Written)[k].p[1] = 1 /\ Hexagons(Written)[k].p[2] = 3


\* the shape elements of a document, in document order
Shapes(doc) == SelectSeq(doc, LAMBDA e : e.tag \in ShapeTags)

(* C28: for triangular, square and hexagonal and every size >= 10, the
   sequence of primitives the raster engine draws equals the sequence of
   line and polygon elements that each vector generator drawing the pattern
   emits for the same size: same count, same order, same coordinates. *)
C28_RasterEqualsVector ==
  (Returned /\ last.pattern \in RasterPatterns /\ gen.size >= CellDivisor)
    => /\ gen.engine = "raster"
            => /\ SvgContent(gen, last.pattern).err = ""
               /\ Written = Shapes(SvgContent(gen, last.pattern).body)
               /\ last.pattern \in ComplexPatterns
                    => Written = Shapes(ComplexContent(gen, last.pattern).body)
       /\ gen.engine \in {"svg", "complex"}
            => /\ RasterDraw(gen, last.pattern).err = ""
               /\ Shapes(Written) = RasterDraw(gen, last.pattern).body

C28_Witness ==
  /\ Returned /\ last.pattern = "square" /\ gen.engine = "svg"
  /\ gen.size = TestSize
  /\ Len(Shapes(Written)) = 22
  /\ Shapes(Written)[12].p = <<0, 0, 0, TestSize>>


(* C29: generate never modifies the generator's configuration: every call,
   successful or failing, leaves the instance's size, line_width,
   stroke_color, background_color and pattern_type as the constructor set
   them. *)
C29_ConfigurationUnchanged ==
  [][ /\ gen'.engine = gen.engine
      /\ gen'.size = gen.size
      /\ gen'.line_width = gen.line_width
      /\ gen'.stroke_color = gen.stroke_color
      /\ gen'.background_color = gen.background_color
      /\ gen'.pattern_type = gen.pattern_type ]_vars

C29_Witness ==
  /\ gen \in Generators
  /\ gen.engine = "raster" /\ gen.line_width = IntVal(2)
  /\ RaisedWith(UnknownPattern)
  /\ \E q \in Paths : files[q].fmt = "png" /\ files[q].w = gen.size


\* the generator classes the packages under tessellations.core define
EngineClasses ==
  {"TessellationGenerator", "IslamicPatternGenerator"} \cup SvgGeneratorNames

(* C30: every combination of --pattern, --complexity and --format the
   argument parser accepts is routed to an engine class that exists, the
   run returns with exit status 0 and has written the output file, whose
   content format is the requested one.
   Refuted: main.py imports SVGTessellationGenerator from svg_generator.py,
   which defines no such class, so every run ends in the import error
   before main is entered. *)
C30_CliRunsSucceed ==
  (last.outcome # "none")
    => /\ Route(last.args.pattern, last.args.complexity, last.args.format) \in EngineClasses
       /\ last.outcome = "returned"
       /\ Exists(last.path)
       /\ files[last.path].fmt = last.args.format

=============================================================================
